---- MODULE Spec2Model ----
(***************************************************************************)
(* Research agent loop of ai-agent-pocket-flow (src/src/pc.py and          *)
(* src/src/pc1.py): Decide / Search / Answer nodes over one shared store,  *)
(* the language-model client, the decision parser and the search client.   *)
(*                                                                         *)
(* Text is a sequence of chunks (strings); concatenation is \o.  A Python  *)
(* value is a record [typ, txt]: typ "str" or "int" for a value, "absent"  *)
(* for a key that is not in a dict.                                        *)
(***************************************************************************)
EXTENDS Integers, Sequences, FiniteSets, TLC

\* ------------------------------------------------------------------ bounds
\* longest candidate payload (in lines) a model reply carries
MaxPayloadLen == 2
\* node executions of one session that are explored
MaxSteps == 6
\* longest result list the search provider returns (the code asks for 5)
MaxResults == 2
\* longest response text (in tokens) handed to extract_decision on its own
MaxRespLen == 4

\* ------------------------------------------------------------------ values
Str(s) == [typ |-> "str", txt |-> s]
IntVal(s) == [typ |-> "int", txt |-> s]
Absent == [typ |-> "absent", txt |-> <<>>]

Has(v) == v.typ # "absent"

\* str(v) / f-string formatting of a value: the text of its printed form
PyStr(v) == v.txt

\* ------------------------------------------------------------------ tokens
\* A model reply is a sequence of tokens.  Fences and whitespace are tokens
\* of their own; every other token is one line of text.  FenceYaml is three
\* backquotes followed by yaml, Fence is three backquotes.
FenceYaml == "FENCE-yaml"
Fence == "FENCE"
WS == "\n"

\* lines of the form "key: value"
KVTokens == {"action: search", "action: answer", "action: foo",
             "search_query: q1", "search_query: 7", "answer: X"}
\* a line of plain words, a flow sequence, and a line YAML always rejects
TXT == "hello"
LIST == "[a, b]"
BAD == "a: b: c"

ContentTokens == KVTokens \cup {TXT, LIST, BAD}
Tokens == ContentTokens \cup {FenceYaml, Fence, WS}

KeyOf(t) ==
    CASE t \in {"action: search", "action: answer", "action: foo"} -> "action"
      [] t \in {"search_query: q1", "search_query: 7"} -> "search_query"
      [] t = "answer: X" -> "answer"

ValOf(t) ==
    CASE t = "action: search" -> Str(<<"search">>)
      [] t = "action: answer" -> Str(<<"answer">>)
      [] t = "action: foo" -> Str(<<"foo">>)
      [] t = "search_query: q1" -> Str(<<"q1">>)
      [] t = "search_query: 7" -> IntVal(<<"7">>)
      [] t = "answer: X" -> Str(<<"X">>)

Keys == {"action", "search_query", "answer", "raw", "_error"}

\* the empty dict {}
EmptyDict == [k \in Keys |-> Absent]

\* ------------------------------------------------------------------ parser
RECURSIVE lstrip(_)
lstrip(s) == IF s # <<>> /\ Head(s) = WS THEN lstrip(Tail(s)) ELSE s

RECURSIVE rstrip(_)
rstrip(s) ==
    IF s # <<>> /\ s[Len(s)] = WS THEN rstrip(SubSeq(s, 1, Len(s) - 1)) ELSE s

\* str.strip()
strip(s) == rstrip(lstrip(s))

IsFence(t) == t \in {FenceYaml, Fence}

\* positions of an opening yaml fence that has a closing fence after it; a
\* later yaml fence closes the block as well, since it begins with a fence
OpenAt(r) ==
    {i \in 1..Len(r) : r[i] = FenceYaml /\ \E j \in (i + 1)..Len(r) : IsFence(r[j])}

Min(S) == CHOOSE x \in S : \A y \in S : x <= y

\* re.search, had the group been greedy: the leftmost opening, the last
\* closing fence
re_search_Greedy(r) ==
    IF {i \in 1..Len(r) : r[i] = "FENCE-yaml"
                            /\ \E j \in (i + 1)..Len(r) : r[j] \in {"FENCE-yaml", "FENCE"}} = {}
    THEN [found |-> FALSE, group1 |-> <<>>]
    ELSE LET i == CHOOSE x \in 1..Len(r) :
                      /\ r[x] = "FENCE-yaml"
                      /\ \A y \in 1..(x - 1) : r[y] # "FENCE-yaml"
             j == CHOOSE x \in (i + 1)..Len(r) :
                      /\ r[x] \in {"FENCE-yaml", "FENCE"}
                      /\ \A y \in (x + 1)..Len(r) : r[y] \notin {"FENCE-yaml", "FENCE"}
         IN  [found |-> TRUE, group1 |-> SubSeq(r, i + 1, j - 1)]

\* re.search of the fenced yaml block pattern (re.DOTALL): the leftmost
\* opening, the nearest closing fence; group(1) is what lies between
re_search(r) ==
    IF OpenAt(r) = {} THEN [found |-> FALSE, group1 |-> <<>>]
    ELSE LET i == Min(OpenAt(r))
             j == Min({k \in (i + 1)..Len(r) : IsFence(r[k])})
         IN  [found |-> TRUE, group1 |-> strip(SubSeq(r, i + 1, j - 1))]

\* the candidate payload
yaml_text(response) ==
    LET match == re_search(response)
    IN  IF match.found THEN strip(match.group1) ELSE strip(response)

NoWS(s) == SelectSeq(s, LAMBDA t : t # WS)

RECURSIVE LoadMapping(_)
\* a block mapping, line by line; a repeated key keeps its last value
LoadMapping(s) ==
    IF s = <<>> THEN EmptyDict
    ELSE LET n == Len(s)
         IN  [LoadMapping(SubSeq(s, 1, n - 1)) EXCEPT ![KeyOf(s[n])] = ValOf(s[n])]

\* yaml.safe_load(yaml_text): None for an empty document, a dict for lines
\* of "key: value", a string for a plain multi-line scalar, a list for a
\* flow sequence; yaml.YAMLError for anything else
safe_load(text) ==
    LET s == NoWS(text)
    IN  IF s = <<>> THEN [kind |-> "none", d |-> EmptyDict]
        ELSE IF \A i \in 1..Len(s) : s[i] \in KVTokens
             THEN [kind |-> "dict", d |-> LoadMapping(s)]
        ELSE IF s[1] = TXT /\ \A i \in 1..Len(s) : s[i] \notin KVTokens \cup {BAD}
             THEN [kind |-> "str", d |-> EmptyDict]
        ELSE IF s = <<LIST>> THEN [kind |-> "list", d |-> EmptyDict]
        ELSE [kind |-> "error", d |-> EmptyDict]

\* the description of a parse error, str(exc)
YamlErrorText == <<"yaml error">>

extract_decision(response) ==
    LET text == yaml_text(response)
        loaded == safe_load(text)
    IN  CASE loaded.kind = "none" -> [kind |-> "dict", d |-> EmptyDict]
          [] loaded.kind = "error" ->
                [kind |-> "dict",
                 d |-> [EmptyDict EXCEPT !["raw"] = Str(text),
                                         !["_error"] = Str(YamlErrorText)]]
          [] OTHER -> loaded

\* ------------------------------------------------------------ model client
\* what the chat endpoint does with a prompt: it raises, or it replies
ChatRaised == [raised |-> TRUE, content |-> <<>>]
ChatReply(c) == [raised |-> FALSE, content |-> c]

\* call_llm, had it returned the error message when the call raised
call_llm_ErrorText(chat) == IF chat.raised THEN <<"LLM call failed">> ELSE chat.content

\* call_llm: the reply's text, or the empty string when the call raised
call_llm(chat) == IF chat.raised THEN <<>> ELSE chat.content

\* ----------------------------------------------------------- search client
\* one result of the provider, and its rendering
Result == [title |-> "t", href |-> "u", body |-> "b"]

FormatResult(r) == <<"Title: ", r.title, "\nURL: ", r.href, "\nSnippet: ", r.body>>

RECURSIVE Join(_)
\* "\n\n".join(...)
Join(items) ==
    IF items = <<>> THEN <<>>
    ELSE IF Len(items) = 1 THEN items[1]
    ELSE items[1] \o <<"\n\n">> \o Join(Tail(items))

\* search_web_duckduckgo, had it rendered an empty result list as a message
search_web_duckduckgo_NoResultsText(results) ==
    IF results = <<>> THEN <<"No results found">>
    ELSE Join([i \in 1..Len(results) |-> FormatResult(results[i])])

search_web_duckduckgo(results) ==
    Join([i \in 1..Len(results) |-> FormatResult(results[i])])

\* ------------------------------------------------------------------- nodes
Variants == {"pc", "pc1"}

NoPreviousSearch == <<"No previous search">>

\* dict.get(key, default) on the shared store
Get(shared, key, default) == IF Has(shared[key]) THEN shared[key] ELSE default

\* the result of running one step of a node: the exception that escaped (or
\* "none"), the shared store afterwards, the action it returned
Outcome(raised, shared, action) ==
    [raised |-> raised, shared |-> shared, action |-> action]

NoAction == Absent

\* DecideAction.prep, had it defaulted the context to the empty string as
\* the other two nodes do
DecideAction_prep_EmptyDefault(shared) ==
    [question |-> shared["question"], context |-> Get(shared, "context", Str(<<>>))]

\* DecideAction.prep: (question, context)
DecideAction_prep(shared) ==
    [question |-> shared["question"],
     context |-> Get(shared, "context", Str(NoPreviousSearch))]

\* the decision prompt: the question and the previous research put in it
DecidePrompt(prep_res) ==
    [node |-> "decide", question |-> PyStr(prep_res.question),
     research |-> PyStr(prep_res.context)]

\* DecideAction.exec
DecideAction_exec(chat) == extract_decision(call_llm(chat))

\* DecideAction.post of pc.py, had it reset the context before reading the
\* answer text of the decision
DecideAction_post_pc_ResetFirst(shared, exec_res) ==
    IF exec_res.kind # "dict" THEN Outcome("TypeError", shared, NoAction)
    ELSE LET d == exec_res.d
         IN  IF ~Has(d["action"]) THEN Outcome("KeyError", shared, NoAction)
             ELSE IF d["action"] = Str(<<"search">>)
                  THEN IF ~Has(d["search_query"])
                       THEN Outcome("KeyError", shared, NoAction)
                       ELSE Outcome("none",
                                    [shared EXCEPT !["search_query"] = d["search_query"]],
                                    d["action"])
             ELSE IF ~Has(d["answer"])
                  THEN Outcome("KeyError", [shared EXCEPT !["context"] = Str(<<>>)],
                               NoAction)
             ELSE Outcome("none", [shared EXCEPT !["context"] = d["answer"]],
                          d["action"])

\* DecideAction.post of pc.py, had it stored the answer text in the answer
\* field instead of the context
DecideAction_post_pc_IntoAnswer(shared, exec_res) ==
    IF exec_res.kind # "dict" THEN Outcome("TypeError", shared, NoAction)
    ELSE LET d == exec_res.d
         IN  IF ~Has(d["action"]) THEN Outcome("KeyError", shared, NoAction)
             ELSE IF d["action"] = Str(<<"search">>)
                  THEN IF ~Has(d["search_query"])
                       THEN Outcome("KeyError", shared, NoAction)
                       ELSE Outcome("none",
                                    [shared EXCEPT !["search_query"] = d["search_query"]],
                                    d["action"])
             ELSE IF ~Has(d["answer"]) THEN Outcome("KeyError", shared, NoAction)
             ELSE Outcome("none", [shared EXCEPT !["answer"] = d["answer"]],
                          d["action"])

\* DecideAction.post of pc.py: subscripts, which raise on a missing key
DecideAction_post_pc(shared, exec_res) ==
    IF exec_res.kind # "dict" THEN Outcome("TypeError", shared, NoAction)
    ELSE LET d == exec_res.d
         IN  IF ~Has(d["action"]) THEN Outcome("KeyError", shared, NoAction)
             ELSE IF d["action"] = Str(<<"search">>)
                  THEN IF ~Has(d["search_query"])
                       THEN Outcome("KeyError", shared, NoAction)
                       ELSE Outcome("none",
                                    [shared EXCEPT !["search_query"] = d["search_query"]],
                                    d["action"])
             ELSE IF ~Has(d["answer"]) THEN Outcome("KeyError", shared, NoAction)
             ELSE Outcome("none", [shared EXCEPT !["context"] = d["answer"]],
                          d["action"])

\* DecideAction.post of pc1.py, had it stored the query only when the
\* decision carries one
DecideAction_post_pc1_KeepsQuery(shared, exec_res) ==
    IF exec_res.kind # "dict" THEN Outcome("AttributeError", shared, NoAction)
    ELSE LET d == exec_res.d
         IN  IF Has(d["action"]) /\ d["action"] = Str(<<"search">>)
             THEN Outcome("none",
                          IF Has(d["search_query"])
                          THEN [shared EXCEPT !["search_query"] = d["search_query"]]
                          ELSE shared,
                          d["action"])
             ELSE Outcome("none",
                          [shared EXCEPT !["context"] = Get(d, "answer", Str(<<>>))],
                          Get(d, "action", Str(<<>>)))

\* DecideAction.post of pc1.py, had it appended the answer text to the
\* context instead of assigning it
DecideAction_post_pc1_Append(shared, exec_res) ==
    IF exec_res.kind # "dict" THEN Outcome("AttributeError", shared, NoAction)
    ELSE LET d == exec_res.d
         IN  IF Has(d["action"]) /\ d["action"] = Str(<<"search">>)
             THEN Outcome("none",
                          [shared EXCEPT !["search_query"] =
                               Get(d, "search_query", Str(<<>>))],
                          d["action"])
             ELSE Outcome("none",
                          [shared EXCEPT !["context"] =
                               Str(Get(shared, "context", Str(<<>>)).txt
                                       \o Get(d, "answer", Str(<<>>)).txt)],
                          Get(d, "action", Str(<<>>)))

\* DecideAction.post of pc1.py: dict.get with "" as the default
DecideAction_post_pc1(shared, exec_res) ==
    IF exec_res.kind # "dict" THEN Outcome("AttributeError", shared, NoAction)
    ELSE LET d == exec_res.d
         IN  IF Has(d["action"]) /\ d["action"] = Str(<<"search">>)
             THEN Outcome("none",
                          [shared EXCEPT !["search_query"] =
                               Get(d, "search_query", Str(<<>>))],
                          d["action"])
             ELSE Outcome("none",
                          [shared EXCEPT !["context"] = Get(d, "answer", Str(<<>>))],
                          Get(d, "action", Str(<<>>)))

DecideAction_post(v, shared, exec_res) ==
    IF v = "pc" THEN DecideAction_post_pc(shared, exec_res)
    ELSE DecideAction_post_pc1(shared, exec_res)

\* SearchWeb.prep
SearchWeb_prep(shared) == shared["search_query"]

\* SearchWeb.exec: the provider raises, or its results are rendered
SearchWeb_exec(provider) ==
    IF provider.raised THEN [raised |-> TRUE, results |-> <<>>]
    ELSE [raised |-> FALSE, results |-> search_web_duckduckgo(provider.results)]

\* the entry SearchWeb.post appends to the context
SearchEntry(query, results) ==
    <<"\n\nSEARCH: ">> \o query \o <<"\nRESULTS: ">> \o results

\* SearchWeb.post of pc.py, had it assigned the new entry instead of
\* appending it to the previous context
SearchWeb_post_pc_Overwrite(shared, exec_res) ==
    IF shared["search_query"].typ # "str"
    THEN Outcome("TypeError", shared, NoAction)
    ELSE Outcome("none",
                 [shared EXCEPT !["context"] =
                      Str(SearchEntry(shared["search_query"].txt, exec_res))],
                 Str(<<"decide">>))

\* SearchWeb.post of pc.py: str + str, which raises on a query that is no str
SearchWeb_post_pc(shared, exec_res) ==
    LET previous == Get(shared, "context", Str(<<>>))
    IN  IF previous.typ # "str" \/ shared["search_query"].typ # "str"
        THEN Outcome("TypeError", shared, NoAction)
        ELSE Outcome("none",
                     [shared EXCEPT !["context"] =
                          Str(previous.txt \o SearchEntry(shared["search_query"].txt,
                                                          exec_res))],
                     Str(<<"decide">>))

\* SearchWeb.post of pc1.py: the query and the results go through an f-string
SearchWeb_post_pc1(shared, exec_res) ==
    LET previous == Get(shared, "context", Str(<<>>))
    IN  IF previous.typ # "str"
        THEN Outcome("TypeError", shared, NoAction)
        ELSE Outcome("none",
                     [shared EXCEPT !["context"] =
                          Str(previous.txt \o SearchEntry(PyStr(shared["search_query"]),
                                                          exec_res))],
                     Str(<<"decide">>))

SearchWeb_post(v, shared, exec_res) ==
    IF v = "pc" THEN SearchWeb_post_pc(shared, exec_res)
    ELSE SearchWeb_post_pc1(shared, exec_res)

\* AnswerQuestion.prep: (question, context)
AnswerQuestion_prep(shared) ==
    [question |-> shared["question"], context |-> Get(shared, "context", Str(<<>>))]

\* the answer prompt: the question and the research put in it
AnswerPrompt(prep_res) ==
    [node |-> "answer", question |-> PyStr(prep_res.question),
     research |-> PyStr(prep_res.context)]

\* AnswerQuestion.exec
AnswerQuestion_exec(chat) == call_llm(chat)

\* AnswerQuestion.post, had it surfaced the context as the answer
AnswerQuestion_post_FromContext(shared, exec_res) ==
    Outcome("none", [shared EXCEPT !["answer"] = Get(shared, "context", Str(<<>>))],
            Str(<<"done">>))

\* AnswerQuestion.post
AnswerQuestion_post(shared, exec_res) ==
    Outcome("none", [shared EXCEPT !["answer"] = Str(exec_res)], Str(<<"done">>))

\* -------------------------------------------------------------------- flow
\* create_agent_flow, had the transition from search back to decide been
\* left out
get_next_node_NoLoopBack(curr, action) ==
    CASE curr = "decide" /\ action = Str(<<"search">>) -> "search"
      [] curr = "decide" /\ action = Str(<<"answer">>) -> "answer"
      [] OTHER -> "none"

\* create_agent_flow, had an action of decide that selects no transition
\* fallen back to answer
get_next_node_FallBackToAnswer(curr, action) ==
    CASE curr = "decide" /\ action = Str(<<"search">>) -> "search"
      [] curr = "decide" /\ action # Str(<<"search">>) -> "answer"
      [] curr = "search" /\ action = Str(<<"decide">>) -> "decide"
      [] OTHER -> "none"

\* create_agent_flow, had search been wired to answer instead of decide
get_next_node_SearchToAnswer(curr, action) ==
    CASE curr = "decide" /\ action = Str(<<"search">>) -> "search"
      [] curr = "decide" /\ action = Str(<<"answer">>) -> "answer"
      [] curr = "search" /\ action = Str(<<"decide">>) -> "answer"
      [] OTHER -> "none"

\* create_agent_flow, had the transition from decide to answer been left out
get_next_node_NoAnswerEdge(curr, action) ==
    CASE curr = "decide" /\ action = Str(<<"search">>) -> "search"
      [] curr = "search" /\ action = Str(<<"decide">>) -> "decide"
      [] OTHER -> "none"

\* create_agent_flow: the node that follows curr on an action, "none" when
\* no transition carries that action
get_next_node(curr, action) ==
    CASE curr = "decide" /\ action = Str(<<"search">>) -> "search"
      [] curr = "decide" /\ action = Str(<<"answer">>) -> "answer"
      [] curr = "search" /\ action = Str(<<"decide">>) -> "decide"
      [] OTHER -> "none"

\* ------------------------------------------------------------------ inputs
RECURSIVE SeqsUpTo(_, _)
\* the sequences over S of length at most n
SeqsUpTo(S, n) ==
    IF n = 0 THEN {<<>>}
    ELSE LET shorter == SeqsUpTo(S, n - 1)
         IN  shorter \cup {Append(q, x) : q \in shorter, x \in S}

Payloads == SeqsUpTo(ContentTokens, MaxPayloadLen)

\* a payload inside a fenced yaml block, with prose around the block
Fenced(p) == <<TXT, FenceYaml, WS>> \o p \o <<WS, Fence, TXT>>

\* the replies the model gives to a decision prompt
ModelReplies == Payloads \cup {Fenced(p) : p \in Payloads}

\* the replies the model gives to an answer prompt
AnswerReplies == {<<>>, <<"X">>, <<"final">>}

\* one reply for each kind of decision: empty, not a mapping, unparseable,
\* search with and without a (string) query, answer, an unknown action
LiveReplies ==
    {<<>>, <<TXT>>, <<BAD>>,
     <<"action: search", "search_query: q1">>,
     <<"action: search", "search_query: 7">>,
     <<"action: search">>,
     <<"action: answer", "answer: X">>,
     Fenced(<<"action: answer", "answer: X">>),
     <<"action: answer">>,
     <<"action: foo", "answer: X">>}

LiveChats == {ChatRaised} \cup {ChatReply(c) : c \in LiveReplies}

DecideChats == {ChatRaised} \cup {ChatReply(c) : c \in ModelReplies}
AnswerChats == {ChatRaised} \cup {ChatReply(c) : c \in AnswerReplies}

\* what the search provider does with a query: it raises, or returns results
ProviderOutcomes ==
    {[raised |-> TRUE, results |-> <<>>]}
        \cup {[raised |-> FALSE, results |-> [i \in 1..n |-> Result]] : n \in 0..MaxResults}

\* ------------------------------------------------------------------- state
VARIABLES
    variant,        \* which script runs: "pc" (pc.py) or "pc1" (pc1.py)
    shared,         \* the shared store
    curr,           \* the node the flow runs next, "none" when it has ended
    last_action,    \* the action the last node returned
    raised,         \* the exception that ended the session, or "none"
    decisions,      \* the decisions DecideAction.exec returned, in order
    prompt,         \* the last prompt sent to the model
    llm_failed,     \* whether the last model call raised inside call_llm
    generated,      \* what AnswerQuestion.exec returned: the model's reply
                    \* to the answer prompt, "" when that call failed
    provider,       \* the outcome of the last search provider call
    trace,          \* the nodes executed so far, in order
    response,       \* a response text handed to extract_decision on its own
    parsed          \* what extract_decision made of response

vars == <<variant, shared, curr, last_action, raised, decisions, prompt,
          llm_failed, generated, provider, trace, response, parsed>>

SharedKeys == {"question", "context", "search_query", "answer"}

Question == Str(<<"Q">>)

NoPrompt == [node |-> "none", question |-> <<>>, research |-> <<>>]
NoProvider == [raised |-> FALSE, results |-> <<>>]

NotParsed ==
    [done |-> FALSE, text |-> <<>>, decision |-> [kind |-> "none", d |-> EmptyDict]]

\* the response texts extract_decision is applied to
Responses == SeqsUpTo(Tokens, MaxRespLen)

\* main: shared = {"question": question}; Flow(start=decide)
InitLoop ==
    /\ variant \in Variants
    /\ shared = [k \in SharedKeys |-> IF k = "question" THEN Question ELSE Absent]
    /\ curr = "decide"
    /\ last_action = NoAction
    /\ raised = "none"
    /\ decisions = <<>>
    /\ prompt = NoPrompt
    /\ llm_failed = FALSE
    /\ generated = <<>>
    /\ provider = NoProvider
    /\ trace = <<>>

Init == InitLoop /\ response = <<>> /\ parsed = NotParsed

\* the flow runs node next; Decide, the only way into another round, is
\* explored for the first MaxSteps node executions
Running(node) ==
    /\ curr = node
    /\ raised = "none"
    /\ node = "decide" => Len(trace) < MaxSteps

\* the flow after a node's run: the exception propagates, or the flow moves
\* to the successor the returned action selects
Orchestrate(node, o) ==
    /\ shared' = o.shared
    /\ raised' = o.raised
    /\ last_action' = o.action
    /\ curr' = IF o.raised # "none" THEN node ELSE get_next_node(node, o.action)
    /\ trace' = Append(trace, node)

\* one run of DecideAction, prep, exec, post, the chat call behaving in one
\* of the given ways
DecideWith(chats) ==
    /\ Running("decide")
    /\ \E chat \in chats :
          LET prep_res == DecideAction_prep(shared)
              exec_res == DecideAction_exec(chat)
          IN  /\ prompt' = DecidePrompt(prep_res)
              /\ llm_failed' = chat.raised
              /\ decisions' = Append(decisions, exec_res)
              /\ Orchestrate("decide", DecideAction_post(variant, shared, exec_res))
    /\ UNCHANGED <<variant, generated, provider, response, parsed>>

Decide == DecideWith(DecideChats)

\* one run of SearchWeb: prep, exec, post
Search ==
    /\ Running("search")
    /\ \E p \in ProviderOutcomes :
          LET exec_res == SearchWeb_exec(p)
          IN  /\ provider' = p
              /\ Orchestrate("search",
                     IF exec_res.raised THEN Outcome("SearchError", shared, NoAction)
                     ELSE SearchWeb_post(variant, shared, exec_res.results))
    /\ UNCHANGED <<variant, decisions, prompt, llm_failed, generated, response, parsed>>

\* one run of AnswerQuestion: prep, exec, post
Answer ==
    /\ Running("answer")
    /\ \E chat \in AnswerChats :
          LET prep_res == AnswerQuestion_prep(shared)
          IN  /\ prompt' = AnswerPrompt(prep_res)
              /\ llm_failed' = chat.raised
              /\ generated' = AnswerQuestion_exec(chat)
              /\ Orchestrate("answer",
                     AnswerQuestion_post(shared, AnswerQuestion_exec(chat)))
    /\ UNCHANGED <<variant, decisions, provider, response, parsed>>

Next == Decide \/ Search \/ Answer

Spec == Init /\ [][Next]_vars

\* Flow.run executes node after node without pausing, and every external
\* call returns (with a value or an exception): a node that is to run does run
DecideLive == DecideWith(LiveChats)

NextLive == DecideLive \/ Search \/ Answer

LiveSpec ==
    /\ Init /\ [][NextLive]_vars
    /\ WF_vars(DecideLive) /\ WF_vars(Search) /\ WF_vars(Answer)

\* extract_decision applied to one response text, as DecideAction.exec does
\* with the model's reply
InitParse ==
    /\ InitLoop /\ variant = "pc"
    /\ response \in Responses
    /\ parsed = NotParsed

Parse ==
    /\ ~parsed.done
    /\ parsed' = [done |-> TRUE, text |-> yaml_text(response),
                  decision |-> extract_decision(response)]
    /\ UNCHANGED <<variant, shared, curr, last_action, raised, decisions, prompt,
                   llm_failed, generated, provider, trace, response>>

ParseSpec == InitParse /\ [][Parse]_vars

\* ------------------------------------------------------------- vocabulary
\* the session reached Done: AnswerQuestion returned and the flow ended
Done == curr = "none" /\ raised = "none" /\ last_action = Str(<<"done">>)
\* the flow ended without an exception: no next node to execute
Stopped == curr = "none" /\ raised = "none"
\* an exception ended the session
Crashed == raised # "none"

AnswerSet == Has(shared["answer"])
LastNode == IF trace = <<>> THEN "none" ELSE trace[Len(trace)]
LastDecision == decisions[Len(decisions)]

TypeOK ==
    /\ variant \in Variants
    /\ curr \in {"decide", "search", "answer", "none"}
    /\ raised \in {"none", "KeyError", "TypeError", "AttributeError", "SearchError"}
    /\ Len(trace) <= MaxSteps + 1

\* ------------------------------------------------------------------ claims
\* C1 (as stated): answer is set if and only if the flow has stopped, that
\* is, there is no next node to execute.
C1_AnswerIffStopped == AnswerSet <=> Stopped

\* C1 (amended): answer is set if and only if the session has reached Done,
\* that is, AnswerQuestion has completed; while a node is still to run, and
\* when the flow stops on a Decide action that selects no transition or on
\* an exception, answer is unset.
C1_AnswerIffDone ==
    /\ AnswerSet <=> Done
    /\ (curr # "none" \/ Crashed) => ~AnswerSet
    /\ (Stopped /\ LastNode = "decide") => ~AnswerSet

C1_Witness == Done /\ AnswerSet /\ trace = <<"decide", "search", "decide", "answer">>

\* a decision record the Decide state cannot act on: no action, an action
\* that is neither search nor answer, or the field its action requires missing
Degenerate(e) ==
    /\ e.kind = "dict"
    /\ \/ ~Has(e.d["action"])
       \/ e.d["action"] \notin {Str(<<"search">>), Str(<<"answer">>)}
       \/ e.d["action"] = Str(<<"search">>) /\ ~Has(e.d["search_query"])
       \/ e.d["action"] = Str(<<"answer">>) /\ ~Has(e.d["answer"])

\* C2: a Decide execution whose decision has a missing or unrecognised
\* action, or lacks the field its action requires, completes without raising.
C2_DegenerateDecisionNeverRaises ==
    (LastNode = "decide" /\ Degenerate(LastDecision)) => raised = "none"

\* C3: a failed model call never aborts the session: the client returns "",
\* the parser turns it into the empty mapping, and the Decide or Answer
\* execution in which the call failed completes without an exception.
C3_ModelFailureNeverAborts ==
    llm_failed =>
        /\ raised = "none"
        /\ LastNode = "decide" => LastDecision = [kind |-> "dict", d |-> EmptyDict]
        /\ LastNode = "answer" => generated = <<>>

\* C4: whatever the model replied, extract_decision returned a mapping: the
\* parsed mapping, the empty mapping, or the fallback record with the raw
\* payload and a non-empty error text; never a bare scalar or a list.
C4_DecisionAlwaysMapping ==
    \A i \in 1..Len(decisions) :
        /\ decisions[i].kind = "dict"
        /\ Has(decisions[i].d["raw"]) =>
               /\ Has(decisions[i].d["_error"])
               /\ decisions[i].d["_error"].txt # <<>>

IsPrefix(a, b) == Len(a) <= Len(b) /\ SubSeq(b, 1, Len(a)) = a

\* the text of the context, "" while the key is absent
Ctx == PyStr(Get(shared, "context", Str(<<>>)))

WellFormedSearch(e) ==
    /\ e.kind = "dict"
    /\ e.d["action"] = Str(<<"search">>)
    /\ e.d["search_query"].typ = "str"

WellFormedAnswer(e) ==
    /\ e.kind = "dict"
    /\ e.d["action"] = Str(<<"answer">>)
    /\ e.d["answer"].typ = "str"

FirstIsAnswer == decisions # <<>> /\ WellFormedAnswer(decisions[1])

\* C5 (as stated): when the first decision is an answer with text X, the
\* loop ends after one Decide and no Search, and the final answer is X.
C5_FinalAnswerIsDecisionText ==
    FirstIsAnswer =>
        /\ raised = "none"
        /\ trace \in {<<"decide">>, <<"decide", "answer">>}
        /\ Len(trace) = 1 => curr = "answer"
        /\ Len(trace) = 2 => Done /\ shared["answer"] = decisions[1].d["answer"]

\* C5 (amended): when the first decision is an answer with text X, the loop
\* ends after one Decide, no Search and one Answer; X is stored in context
\* and is the research text of the answer prompt, and the final answer is
\* the model's reply to that prompt, which need not be X.
C5_FinalAnswerIsReply ==
    FirstIsAnswer =>
        /\ raised = "none"
        /\ trace \in {<<"decide">>, <<"decide", "answer">>}
        /\ shared["context"] = decisions[1].d["answer"]
        /\ Len(trace) = 1 => curr = "answer" /\ ~AnswerSet
        /\ Len(trace) = 2 =>
               /\ Done
               /\ prompt.node = "answer"
               /\ prompt.research = decisions[1].d["answer"].txt
               /\ shared["answer"] = Str(generated)

C5_Witness ==
    /\ FirstIsAnswer
    /\ Done
    /\ shared["answer"] = Str(<<"final">>)
    /\ shared["context"] = Str(<<"X">>)

RECURSIVE DecideSearch(_)
\* (Decide, Search) repeated k times
DecideSearch(k) ==
    IF k = 0 THEN <<>> ELSE DecideSearch(k - 1) \o <<"decide", "search">>

\* C6: while the model has returned only well-formed search decisions, then
\* one well-formed answer decision, and every search call has succeeded, the
\* nodes executed are (Decide, Search) k times, Decide, Answer, and the flow
\* ends there: k Search and k+1 Decide executions, nothing after Answer.
C6_StateSequence ==
    LET n == Len(decisions)
    IN  (/\ n >= 1
         /\ \A i \in 1..(n - 1) : WellFormedSearch(decisions[i])
         /\ ~provider.raised)
        => /\ WellFormedAnswer(decisions[n]) =>
                 /\ raised = "none"
                 /\ trace \in {DecideSearch(n - 1) \o <<"decide">>,
                               DecideSearch(n - 1) \o <<"decide", "answer">>}
                 /\ LastNode = "decide" => curr = "answer"
                 /\ LastNode = "answer" => Done
           /\ WellFormedSearch(decisions[n]) =>
                 /\ raised = "none"
                 /\ trace \in {DecideSearch(n - 1) \o <<"decide">>, DecideSearch(n)}
                 /\ LastNode = "decide" => curr = "search"
                 /\ LastNode = "search" => curr = "decide"

C6_Witness ==
    /\ Done
    /\ trace = <<"decide", "search", "decide", "search", "decide", "answer">>
    /\ \A i \in 1..2 : WellFormedSearch(decisions[i])
    /\ WellFormedAnswer(decisions[3])

\* a Search execution that completed in this step
SearchCompleted == trace' = Append(trace, "search") /\ raised' = "none"

\* C7: a completed Search execution leaves the old context (empty if absent)
\* as a prefix of the new one: the new context is the old one followed by the
\* separator, the query issued and the formatted results.
C7_SearchAppends ==
    [][SearchCompleted =>
          /\ IsPrefix(Ctx, Ctx')
          /\ Len(Ctx') >= Len(Ctx)
          /\ Ctx' = Ctx \o <<"\n\nSEARCH: ">> \o PyStr(shared["search_query"])
                        \o <<"\nRESULTS: ">>
                        \o search_web_duckduckgo(provider'.results)]_vars

C7_Witness ==
    /\ trace = <<"decide", "search", "decide", "search">>
    /\ raised = "none"
    /\ Len(provider.results) = 2
    /\ Len(Ctx) > 10

\* C8: context is append-only over the whole session: no step of Decide,
\* Search or Answer removes or replaces what the context held before.
C8_ContextAppendOnly == [][IsPrefix(Ctx, Ctx')]_vars

C10_ProviderFailureRecovered ==
    (LastNode = "search" /\ provider.raised) =>
        /\ raised = "none"
        /\ curr = "decide"
        /\ Len(Ctx) >= 1 /\ Ctx[Len(Ctx)] = "\nRESULTS: "

\* C11: once a Decide execution has obtained a well-formed answer decision,
\* the session eventually reaches Done with answer set, whatever the model
\* and the search provider did before and whatever the model replies after.
C11_AnswerDecisionLeadsToDone ==
    (LastNode = "decide" /\ raised = "none" /\ WellFormedAnswer(LastDecision))
        ~> (Done /\ AnswerSet)

C11_Witness ==
    /\ Done /\ AnswerSet
    /\ WellFormedAnswer(LastDecision)
    /\ trace = <<"decide", "search", "decide", "answer">>
    /\ generated = <<"final">>

\* a well-formed fenced yaml block of r: an opening yaml fence at i, the
\* closing fence at j, no fence in between
BlockAt(r, i, j) ==
    /\ i \in 1..Len(r) /\ j \in (i + 1)..Len(r)
    /\ r[i] = FenceYaml /\ r[j] = Fence
    /\ \A k \in (i + 1)..(j - 1) : ~IsFence(r[k])

\* the first well-formed block of r
FirstBlockAt(r, i, j) ==
    /\ BlockAt(r, i, j)
    /\ \A a \in 1..(i - 1) : \A b \in 1..Len(r) : ~BlockAt(r, a, b)

\* the payload and the decision are those of the interior alone
FromInterior(r, i, j) ==
    /\ parsed.text = strip(SubSeq(r, i + 1, j - 1))
    /\ parsed.decision = extract_decision(SubSeq(r, i + 1, j - 1))

\* C12 (as stated): for a response with a well-formed fenced yaml block, the
\* payload is the trimmed interior of the first such block, whatever text
\* stands before or after it.
C12_FirstBlockInterior ==
    parsed.done =>
        \A i, j \in 1..Len(response) :
            FirstBlockAt(response, i, j) => FromInterior(response, i, j)

\* C12 (amended): the payload is the trimmed text between the first yaml
\* fence of the response and the first fence after it; so for a response
\* whose first well-formed block is not preceded by another yaml fence, the
\* payload is the trimmed interior of that block, and the text before it,
\* the text after it and any later block have no effect on the decision.
C12_FirstFenceInterior ==
    parsed.done =>
        \A i, j \in 1..Len(response) :
            (/\ BlockAt(response, i, j)
             /\ \A k \in 1..(i - 1) : response[k] # FenceYaml)
                => FromInterior(response, i, j)

C12_Witness ==
    /\ parsed.done
    /\ response = <<TXT, FenceYaml, "action: search", Fence>>
    /\ parsed.text = <<"action: search">>
    /\ parsed.decision.d["action"] = Str(<<"search">>)

\* every decision so far is a well-formed search decision
OnlySearchDecisions ==
    \A i \in 1..Len(decisions) : WellFormedSearch(decisions[i])

\* C13: against a model that returns a well-formed search decision at every
\* Decide execution the session never reaches Done, and the flow never runs
\* out of nodes: unless an exception ends it, another node is always due,
\* so any number of Search executions can be completed.
C13_NoIterationBound ==
    OnlySearchDecisions =>
        /\ ~Done /\ ~AnswerSet
        /\ \A i \in 1..Len(trace) : trace[i] # "answer"
        /\ ~Crashed => curr \in {"decide", "search"}
        /\ ~Crashed => curr = (IF Len(trace) % 2 = 0 THEN "decide" ELSE "search")

C13_Witness ==
    /\ OnlySearchDecisions
    /\ trace = <<"decide", "search", "decide", "search", "decide", "search">>
    /\ raised = "none"
    /\ curr = "decide"

\* a Decide execution in this step
DecideExecuted == trace' = Append(trace, "decide")

\* the decision of the Decide execution of this step is an answer with text
AnswerDecided ==
    /\ DecideExecuted
    /\ LastDecision'.kind = "dict"
    /\ LastDecision'.d["action"] = Str(<<"answer">>)
    /\ Has(LastDecision'.d["answer"])

\* C14: a Decide execution whose decision is an answer with text X sets
\* context to X, leaves answer unset and question and search_query as they
\* were, and the next node is Answer.
C14_AnswerDecisionEffect ==
    [][AnswerDecided =>
          /\ shared'["context"] = LastDecision'.d["answer"]
          /\ ~Has(shared'["answer"])
          /\ shared'["question"] = shared["question"]
          /\ shared'["search_query"] = shared["search_query"]
          /\ raised' = "none"
          /\ curr' = "answer"]_vars

C14_Witness ==
    /\ trace = <<"decide", "search", "decide">>
    /\ WellFormedAnswer(LastDecision)
    /\ curr = "answer"
    /\ shared["context"] = Str(<<"X">>)
    /\ Has(shared["search_query"])
    /\ ~AnswerSet

\* a Search execution in this step, completed or not
SearchExecuted == trace' = Append(trace, "search")

\* the query of a decision, "" when (pc1.py) it carries none
QueryOf(e) == Get(e.d, "search_query", Str(<<>>))

\* C15: a Search execution comes right after a Decide execution that chose
\* search and wrote search_query; the query it reads, sends to the provider
\* and records in the context is the query of that decision, never one left
\* over from an earlier round.
C15_QueryOfPrecedingDecision ==
    [][SearchExecuted =>
          /\ LastNode = "decide"
          /\ LastDecision.kind = "dict"
          /\ LastDecision.d["action"] = Str(<<"search">>)
          /\ SearchWeb_prep(shared) = QueryOf(LastDecision)
          /\ raised' = "none" =>
                /\ Len(Ctx') >= Len(Ctx) + 2 + Len(PyStr(QueryOf(LastDecision)))
                /\ Ctx'[Len(Ctx) + 1] = "\n\nSEARCH: "
                /\ SubSeq(Ctx', Len(Ctx) + 2,
                          Len(Ctx) + 1 + Len(PyStr(QueryOf(LastDecision))))
                       = PyStr(QueryOf(LastDecision))
                /\ Ctx'[Len(Ctx) + 2 + Len(PyStr(QueryOf(LastDecision)))]
                       = "\nRESULTS: "]_vars

\* the second search of a session, whose decision carries another query than
\* the first
C15_Witness ==
    /\ trace = <<"decide", "search", "decide", "search">>
    /\ raised = "none"
    /\ QueryOf(decisions[1]) = Str(<<"q1">>)
    /\ QueryOf(decisions[2]) # Str(<<"q1">>)
    /\ shared["search_query"] = QueryOf(decisions[2])

\* C16: once Answer is the node due, that one execution takes the session
\* to Done with answer set to the model's reply to the answer prompt; when
\* that model call fails, answer is the empty string and Done is reached too.
C16_AnswerReachesDone ==
    [][(curr = "answer" /\ raised = "none") =>
          /\ trace' = Append(trace, "answer")
          /\ Done'
          /\ prompt'.node = "answer"
          /\ shared'["answer"] = Str(generated')
          /\ llm_failed' => shared'["answer"] = Str(<<>>)
          /\ \A k \in SharedKeys \ {"answer"} : shared'[k] = shared[k]]_vars

C16_Witness ==
    /\ Done
    /\ LastNode = "answer"
    /\ llm_failed
    /\ shared["answer"] = Str(<<>>)

\* C17: whenever Decide executes, the previous research put in its prompt is
\* the sentinel "No previous search" if context is absent or empty, and the
\* accumulated context otherwise; it is never empty.
C17_DecidePromptResearch ==
    [][DecideExecuted =>
          /\ prompt'.node = "decide"
          /\ prompt'.research = (IF Ctx = <<>> THEN NoPreviousSearch ELSE Ctx)
          /\ prompt'.research # <<>>]_vars

C17_Witness ==
    /\ trace = <<"decide", "search", "decide">>
    /\ prompt.node = "decide"
    /\ prompt.research # NoPreviousSearch
    /\ prompt.research[1] = "\n\nSEARCH: "

\* well-formed in the sense of C18: a mapping whose action is search or
\* answer and that carries the field its action requires
HasRequiredField(e) ==
    /\ e.kind = "dict"
    /\ \/ e.d["action"] = Str(<<"search">>) /\ Has(e.d["search_query"])
       \/ e.d["action"] = Str(<<"answer">>) /\ Has(e.d["answer"])

OtherVariant == IF variant = "pc" THEN "pc1" ELSE "pc"

\* what a node's run leaves behind: exception, shared store, next node
Leaves(node, o) ==
    <<o.raised, o.shared, IF o.raised # "none" THEN node ELSE get_next_node(node, o.action)>>

\* C18: on well-formed decisions the two variants take the same steps: from
\* the same shared store and with the same decision or search results, the
\* other variant's Decide and Search leave the same shared store, raise
\* nothing and select the same next node as the variant that runs.  (Both
\* start from the same state and AnswerQuestion is the same code, so equal
\* steps give equal state sequences and equal shared stores.)
C18_VariantsAgree ==
    [][(\A i \in 1..Len(decisions') : HasRequiredField(decisions'[i])) =>
          /\ DecideExecuted =>
                Leaves("decide", DecideAction_post(OtherVariant, shared, LastDecision'))
                    = <<raised', shared', curr'>>
          /\ (SearchExecuted /\ ~provider'.raised) =>
                Leaves("search", SearchWeb_post(OtherVariant, shared,
                                                search_web_duckduckgo(provider'.results)))
                    = <<raised', shared', curr'>>]_vars

\* a Decide execution in this step whose decision is a mapping without action
NoActionDecided ==
    /\ DecideExecuted
    /\ LastDecision'.kind = "dict"
    /\ ~Has(LastDecision'.d["action"])

\* C19: in pc1.py a decision mapping without action makes Decide overwrite
\* context with the decision's answer field ("" if absent) and return "";
\* no transition carries "", so the session ends right there, without
\* Search or Answer running and without answer being set (no node runs once
\* the flow has no node due).
C19_NoActionEndsSession ==
    [][/\ (variant = "pc1" /\ NoActionDecided) =>
             /\ shared' = [shared EXCEPT !["context"] =
                               Get(LastDecision'.d, "answer", Str(<<>>))]
             /\ last_action' = Str(<<>>)
             /\ raised' = "none"
             /\ curr' = "none"
             /\ ~Has(shared'["answer"])
       /\ curr # "none"]_vars

C19_Witness ==
    /\ variant = "pc1"
    /\ trace = <<"decide", "search", "decide">>
    /\ ~Has(LastDecision.d["action"]) /\ LastDecision.kind = "dict"
    /\ LastDecision.d["answer"] = Str(<<"X">>)
    /\ shared["context"] = Str(<<"X">>)
    /\ Stopped /\ ~AnswerSet

\* C20: in pc.py, whenever Decide's post step raises, the shared store is
\* exactly what it was before that Decide execution.
C20_RaisingDecideWritesNothing ==
    [][(variant = "pc" /\ DecideExecuted /\ raised' # "none") =>
          shared' = shared]_vars

C20_Witness ==
    /\ variant = "pc"
    /\ trace = <<"decide", "search", "decide">>
    /\ raised = "KeyError"
    /\ LastDecision.d["action"] = Str(<<"answer">>)
    /\ Len(Ctx) > 0

====
